---- MODULE Spec2Model ----
(***************************************************************************)
(* Reservation arbitration and session lifecycle of the MCP EV charging    *)
(* server (src/main/main.py, src/main/models.py).                          *)
(*                                                                         *)
(* The handlers are `async def` coroutines that contain no `await`, so the *)
(* event loop runs each of them from its first line to its return or raise *)
(* without interleaving: every handler is one atomic action, and requests  *)
(* issued concurrently are handled one after the other in either order.    *)
(*                                                                         *)
(* Modelled: POST /sessions, PUT /sessions/{id}/start, PUT                 *)
(* /sessions/{id}/end and DELETE /sessions/{id}, the handlers that write   *)
(* the two stores, and the passage of time between requests.               *)
(***************************************************************************)
EXTENDS Integers, Sequences, FiniteSets, TLC

\* ---- bounds of the model -------------------------------------------------
MaxTime == 2          \* the UTC clock, and the times of a request, run over 0..MaxTime
MaxSessions == 2      \* successful reservations per run
MaxTzOffset == 0      \* datetime.now() - datetime.utcnow() is in -MaxTzOffset..MaxTzOffset

\* ---- inputs --------------------------------------------------------------
Times == 0..MaxTime
TzOffsets == (0 - MaxTzOffset)..MaxTzOffset
\* the two seeded stations and a station that does not exist
StationIds == {"STN-001", "STN-002", "STN-404"}
\* one connector of each station: each is unknown at the other station
ConnectorIds == {"C-001-1", "C-002-1"}
UserIds == {"U1"}
\* the ids str(uuid.uuid4()) hands out; the last one is never handed out
SessionIds == 1..(MaxSessions + 1)
\* kwh_consumed and cost of PUT .../end: the defaults, and a reading
UsageInputs == {[kwh_consumed |-> 0, cost |-> 0], [kwh_consumed |-> 12, cost |-> 4]}

\* Optional[...] fields: None is the empty set, a value v is {v}
None == {}
Some(v) == {v}

\* models.ChargingSessionCreate
ChargingSessionCreate ==
    [station_id : StationIds, connector_id : ConnectorIds, user_id : UserIds,
     start_time : Times, expected_end_time : Times]

VARIABLES
    mock_stations_db,   \* List[ChargingStation]: station_id and connectors
    mock_sessions_db,   \* List[ChargingSession]
    clock,              \* the host's clock, in UTC
    tz,                 \* offset of the host's local time from UTC
    last                \* the last handler run and its response

vars == <<mock_stations_db, mock_sessions_db, clock, tz, last>>

\* datetime.now(): naive local time
datetime_now == clock + tz
\* datetime.utcnow(): naive UTC time
datetime_utcnow == clock

\* models.Connector (type and power_kw are never read by the handlers)
Connector(id) == [connector_id |-> id, status |-> "available"]

\* the seeded inventory
SeedStations ==
    << [station_id |-> "STN-001",
        connectors |-> << Connector("C-001-1"), Connector("C-001-2") >>],
       [station_id |-> "STN-002",
        connectors |-> << Connector("C-002-1"), Connector("C-002-2") >>] >>

\* next((s for s in mock_stations_db if s.station_id == station_id), None):
\* the index of the first station with this id, 0 standing for None
FindStation(stations, station_id) ==
    IF \E i \in 1..Len(stations) : stations[i].station_id = station_id
    THEN CHOOSE i \in 1..Len(stations) :
            /\ stations[i].station_id = station_id
            /\ \A j \in 1..(i - 1) : stations[j].station_id # station_id
    ELSE 0

\* next((c for c in station.connectors if c.connector_id == connector_id), None):
\* the index of the first connector with this id, 0 standing for None
FindConnector(station, connector_id) ==
    IF \E i \in 1..Len(station.connectors) :
          station.connectors[i].connector_id = connector_id
    THEN CHOOSE i \in 1..Len(station.connectors) :
            /\ station.connectors[i].connector_id = connector_id
            /\ \A j \in 1..(i - 1) : station.connectors[j].connector_id # connector_id
    ELSE 0

\* next((s for s in mock_sessions_db if s.session_id == session_id), None):
\* the index of the first session with this id, 0 standing for None
FindSession(sessions, session_id) ==
    IF \E i \in 1..Len(sessions) : sessions[i].session_id = session_id
    THEN CHOOSE i \in 1..Len(sessions) :
            /\ sessions[i].session_id = session_id
            /\ \A j \in 1..(i - 1) : sessions[j].session_id # session_id
    ELSE 0

\* the status update of the handlers without the connector_id test of the
\* inner loop: every connector of the station takes the status
set_status_of_station(stations, station_id, connector_id, status) ==
    LET si == FindStation(stations, station_id) IN
    IF si = 0 THEN stations
    ELSE [stations EXCEPT ![si].connectors =
              [ci \in DOMAIN @ |-> [@[ci] EXCEPT !.status = status]]]

\* the nested loops of start/end/cancel: the first station with the id, and
\* in it the first connector with the id, gets the status; else no change
SetConnectorStatus(stations, station_id, connector_id, status) ==
    LET si == FindStation(stations, station_id) IN
    IF si = 0 THEN stations
    ELSE LET ci == FindConnector(stations[si], connector_id) IN
         IF ci = 0 THEN stations
         ELSE [stations EXCEPT ![si].connectors[ci].status = status]

\* check_connector_availability with strict comparisons in the overlap test:
\* a window that ends where a session starts counts as overlapping it
availability_strict(sessions, station_id, connector_id, start_time, end_time) ==
    ~ \E i \in 1..Len(sessions) :
        /\ sessions[i].station_id = station_id
        /\ sessions[i].connector_id = connector_id
        /\ sessions[i].status \in {"reserved", "in_progress"}
        /\ ~ (end_time < sessions[i].start_time
              \/ start_time > sessions[i].expected_end_time)

\* check_connector_availability
check_connector_availability(sessions, station_id, connector_id, start_time, end_time) ==
    ~ \E i \in 1..Len(sessions) :
        /\ sessions[i].station_id = station_id
        /\ sessions[i].connector_id = connector_id
        /\ sessions[i].status \in {"reserved", "in_progress"}
        /\ ~ (end_time <= sessions[i].start_time
              \/ start_time >= sessions[i].expected_end_time)

\* a generator that hands out the same id every time
uuid4_constant(sessions) == CHOOSE id \in SessionIds : \A other \in SessionIds : id <= other

\* str(uuid.uuid4()): an id no session of the ledger has
uuid4(sessions) ==
    CHOOSE id \in SessionIds :
        /\ \A i \in 1..Len(sessions) : sessions[i].session_id # id
        /\ \A other \in SessionIds :
              (\A i \in 1..Len(sessions) : sessions[i].session_id # other) => id <= other

\* the response of a handler: raise HTTPException(status_code, detail)
HTTPException(status_code, detail) ==
    [status_code |-> status_code, detail |-> detail]

\* no check of a handler has raised
Passed == [status_code |-> 0, detail |-> ""]

\* the handler `op` raises `exc`: nothing has been mutated before the raise
Raise(op, exc) ==
    /\ last' = [op |-> op, status_code |-> exc.status_code,
                detail |-> exc.detail, body |-> << >>]
    /\ UNCHANGED <<mock_stations_db, mock_sessions_db, clock, tz>>

\* the handler `op` returns `body` with its declared status_code
Return(op, status_code, body) ==
    last' = [op |-> op, status_code |-> status_code, detail |-> "", body |-> body]

Init ==
    /\ mock_stations_db = SeedStations
    /\ mock_sessions_db = << >>
    /\ clock = 0
    /\ tz \in TzOffsets
    /\ last = [op |-> "none", status_code |-> 0, detail |-> "", body |-> << >>]

\* time passes between requests
Tick ==
    /\ clock < MaxTime
    /\ clock' = clock + 1
    /\ UNCHANGED <<mock_stations_db, mock_sessions_db, tz, last>>

\* create_charging_session_checks with the check of the connector's status
\* (main.py 111-115) left out
checks_without_status_check(stations, sessions, now, session_data) ==
    LET si == FindStation(stations, session_data.station_id)
        ci == IF si = 0 THEN 0
              ELSE FindConnector(stations[si], session_data.connector_id)
    IN
    IF session_data.expected_end_time <= now
    THEN HTTPException(400, "Cannot reserve a session in the past.")
    ELSE IF session_data.start_time >= session_data.expected_end_time
    THEN HTTPException(400, "Start time must be before end time.")
    ELSE IF si = 0
    THEN HTTPException(404, "Charging station not found.")
    ELSE IF ci = 0
    THEN HTTPException(404, "Connector not found at station.")
    ELSE IF ~ check_connector_availability(sessions,
                session_data.station_id, session_data.connector_id,
                session_data.start_time, session_data.expected_end_time)
    THEN HTTPException(409, "Connector is not available during the requested time.")
    ELSE Passed

\* create_charging_session_checks that returns after the lookups: the two
\* conflict checks (main.py 111-127) are never reached
checks_without_conflict_checks(stations, sessions, now, session_data) ==
    LET si == FindStation(stations, session_data.station_id)
        ci == IF si = 0 THEN 0
              ELSE FindConnector(stations[si], session_data.connector_id)
    IN
    IF session_data.expected_end_time <= now
    THEN HTTPException(400, "Cannot reserve a session in the past.")
    ELSE IF session_data.start_time >= session_data.expected_end_time
    THEN HTTPException(400, "Start time must be before end time.")
    ELSE IF si = 0
    THEN HTTPException(404, "Charging station not found.")
    ELSE IF ci = 0
    THEN HTTPException(404, "Connector not found at station.")
    ELSE Passed

\* create_charging_session_checks with the station and connector looked up
\* before the window is validated
checks_lookup_before_window(stations, sessions, now, session_data) ==
    LET si == FindStation(stations, session_data.station_id)
        ci == IF si = 0 THEN 0
              ELSE FindConnector(stations[si], session_data.connector_id)
    IN
    IF si = 0
    THEN HTTPException(404, "Charging station not found.")
    ELSE IF ci = 0
    THEN HTTPException(404, "Connector not found at station.")
    ELSE IF session_data.expected_end_time <= now
    THEN HTTPException(400, "Cannot reserve a session in the past.")
    ELSE IF session_data.start_time >= session_data.expected_end_time
    THEN HTTPException(400, "Start time must be before end time.")
    ELSE IF stations[si].connectors[ci].status # "available"
    THEN HTTPException(409, "Connector is currently not available.")
    ELSE IF ~ check_connector_availability(sessions,
                session_data.station_id, session_data.connector_id,
                session_data.start_time, session_data.expected_end_time)
    THEN HTTPException(409, "Connector is not available during the requested time.")
    ELSE Passed

\* POST /sessions, steps 1 to 3: the checks, in the order of the code; the
\* first one that fails raises
create_charging_session_checks(stations, sessions, now, session_data) ==
    LET si == FindStation(stations, session_data.station_id)
        ci == IF si = 0 THEN 0
              ELSE FindConnector(stations[si], session_data.connector_id)
    IN
    IF session_data.expected_end_time <= now
    THEN HTTPException(400, "Cannot reserve a session in the past.")
    ELSE IF session_data.start_time >= session_data.expected_end_time
    THEN HTTPException(400, "Start time must be before end time.")
    ELSE IF si = 0
    THEN HTTPException(404, "Charging station not found.")
    ELSE IF ci = 0
    THEN HTTPException(404, "Connector not found at station.")
    ELSE IF stations[si].connectors[ci].status # "available"
    THEN HTTPException(409, "Connector is currently not available.")
    ELSE IF ~ check_connector_availability(sessions,
                session_data.station_id, session_data.connector_id,
                session_data.start_time, session_data.expected_end_time)
    THEN HTTPException(409, "Connector is not available during the requested time.")
    ELSE Passed

\* POST /sessions, step 4: ChargingSession(session_id=..., **session_data.dict(),
\* status="reserved"), the other fields at their defaults. The audit fields
\* created_at and updated_at are written by the handlers and read by none of
\* them; they are left out of the record.
NewSession(sessions, session_data) ==
    [session_id |-> uuid4(sessions),
     station_id |-> session_data.station_id,
     connector_id |-> session_data.connector_id,
     user_id |-> session_data.user_id,
     start_time |-> session_data.start_time,
     expected_end_time |-> session_data.expected_end_time,
     actual_end_time |-> None,
     kwh_consumed |-> None,
     cost |-> None,
     status |-> "reserved"]

\* create_charging_session that appends the session before it runs the checks
create_appends_before_checks(session_data) ==
    LET exc == create_charging_session_checks(mock_stations_db, mock_sessions_db,
                                              datetime_now, session_data)
        new_session == NewSession(mock_sessions_db, session_data)
    IN
    /\ Len(mock_sessions_db) < MaxSessions
    /\ mock_sessions_db' = Append(mock_sessions_db, new_session)
    /\ IF exc # Passed
       THEN /\ last' = [op |-> "reserve", status_code |-> exc.status_code,
                        detail |-> exc.detail, body |-> << >>]
            /\ UNCHANGED <<mock_stations_db, clock, tz>>
       ELSE /\ mock_stations_db' = SetConnectorStatus(mock_stations_db,
                  session_data.station_id, session_data.connector_id, "reserved")
            /\ Return("reserve", 201, << new_session >>)
            /\ UNCHANGED <<clock, tz>>

\* create_charging_session without the connector update of main.py 143: the
\* session is appended and the connector stays available
create_without_connector_reserve(session_data) ==
    LET exc == create_charging_session_checks(mock_stations_db, mock_sessions_db,
                                              datetime_now, session_data)
        new_session == NewSession(mock_sessions_db, session_data)
    IN
    IF exc # Passed
    THEN Raise("reserve", exc)
    ELSE
        /\ Len(mock_sessions_db) < MaxSessions
        /\ mock_sessions_db' = Append(mock_sessions_db, new_session)
        /\ Return("reserve", 201, << new_session >>)
        /\ UNCHANGED <<mock_stations_db, clock, tz>>

\* POST /sessions
create_charging_session(session_data) ==
    LET exc == create_charging_session_checks(mock_stations_db, mock_sessions_db,
                                              datetime_now, session_data)
        new_session == NewSession(mock_sessions_db, session_data)
    IN
    IF exc # Passed
    THEN Raise("reserve", exc)
    ELSE
        /\ Len(mock_sessions_db) < MaxSessions     \* bound of the model
        /\ mock_sessions_db' = Append(mock_sessions_db, new_session)
        /\ mock_stations_db' = SetConnectorStatus(mock_stations_db,
              session_data.station_id, session_data.connector_id, "reserved")
        /\ Return("reserve", 201, << new_session >>)
        /\ UNCHANGED <<clock, tz>>

\* start_charging_session_checks without the test of the status (main.py 160-161)
start_checks_any_status(sessions, session_id) ==
    LET i == FindSession(sessions, session_id) IN
    IF i = 0
    THEN HTTPException(404, "Session not found.")
    ELSE Passed

\* PUT /sessions/{session_id}/start: the checks
start_charging_session_checks(sessions, session_id) ==
    LET i == FindSession(sessions, session_id) IN
    IF i = 0
    THEN HTTPException(404, "Session not found.")
    ELSE IF sessions[i].status # "reserved"
    THEN HTTPException(400, "Session is not in 'reserved' status.")
    ELSE Passed

\* start_charging_session that leaves the connector's status as it is
\* (main.py 167-174 left out)
start_without_connector_update(session_id) ==
    LET exc == start_charging_session_checks(mock_sessions_db, session_id)
        i == FindSession(mock_sessions_db, session_id)
    IN
    IF exc # Passed
    THEN Raise("start", exc)
    ELSE
        /\ mock_sessions_db' =
              [mock_sessions_db EXCEPT ![i].status = "in_progress",
                                       ![i].start_time = datetime_utcnow]
        /\ Return("start", 200, << mock_sessions_db'[i] >>)
        /\ UNCHANGED <<mock_stations_db, clock, tz>>

\* PUT /sessions/{session_id}/start
start_charging_session(session_id) ==
    LET exc == start_charging_session_checks(mock_sessions_db, session_id)
        i == FindSession(mock_sessions_db, session_id)
    IN
    IF exc # Passed
    THEN Raise("start", exc)
    ELSE
        /\ mock_sessions_db' =
              [mock_sessions_db EXCEPT ![i].status = "in_progress",
                                       ![i].start_time = datetime_utcnow]
        /\ mock_stations_db' = SetConnectorStatus(mock_stations_db,
              mock_sessions_db[i].station_id, mock_sessions_db[i].connector_id,
              "occupied")
        /\ Return("start", 200, << mock_sessions_db'[i] >>)
        /\ UNCHANGED <<clock, tz>>

\* end_charging_session_checks without the test of the status (main.py 183-184)
end_checks_any_status(sessions, session_id) ==
    LET i == FindSession(sessions, session_id) IN
    IF i = 0
    THEN HTTPException(404, "Session not found.")
    ELSE Passed

\* PUT /sessions/{session_id}/end: the checks
end_charging_session_checks(sessions, session_id) ==
    LET i == FindSession(sessions, session_id) IN
    IF i = 0
    THEN HTTPException(404, "Session not found.")
    ELSE IF sessions[i].status # "in_progress"
    THEN HTTPException(400, "Session is not in 'in_progress' status.")
    ELSE Passed

\* end_charging_session that does not record the usage (main.py 188-189 left out)
end_without_usage(session_id, kwh_consumed, cost) ==
    LET exc == end_charging_session_checks(mock_sessions_db, session_id)
        i == FindSession(mock_sessions_db, session_id)
    IN
    IF exc # Passed
    THEN Raise("end", exc)
    ELSE
        /\ mock_sessions_db' =
              [mock_sessions_db EXCEPT ![i].status = "completed",
                                       ![i].actual_end_time = Some(datetime_utcnow)]
        /\ mock_stations_db' = SetConnectorStatus(mock_stations_db,
              mock_sessions_db[i].station_id, mock_sessions_db[i].connector_id,
              "available")
        /\ Return("end", 200, << mock_sessions_db'[i] >>)
        /\ UNCHANGED <<clock, tz>>

\* PUT /sessions/{session_id}/end
end_charging_session(session_id, kwh_consumed, cost) ==
    LET exc == end_charging_session_checks(mock_sessions_db, session_id)
        i == FindSession(mock_sessions_db, session_id)
    IN
    IF exc # Passed
    THEN Raise("end", exc)
    ELSE
        /\ mock_sessions_db' =
              [mock_sessions_db EXCEPT ![i].status = "completed",
                                       ![i].actual_end_time = Some(datetime_utcnow),
                                       ![i].kwh_consumed = Some(kwh_consumed),
                                       ![i].cost = Some(cost)]
        /\ mock_stations_db' = SetConnectorStatus(mock_stations_db,
              mock_sessions_db[i].station_id, mock_sessions_db[i].connector_id,
              "available")
        /\ Return("end", 200, << mock_sessions_db'[i] >>)
        /\ UNCHANGED <<clock, tz>>

\* cancel_charging_session_checks without the test of the status (main.py 209)
cancel_checks_any_status(sessions, session_id) ==
    LET i == FindSession(sessions, session_id) IN
    IF i = 0
    THEN HTTPException(404, "Session not found.")
    ELSE Passed

\* DELETE /sessions/{session_id}: the loop stops at the first session with the
\* id; it raises 400 when that one is not reserved, and 404 when there is none
cancel_charging_session_checks(sessions, session_id) ==
    LET i == FindSession(sessions, session_id) IN
    IF i = 0
    THEN HTTPException(404, "Session not found.")
    ELSE IF sessions[i].status # "reserved"
    THEN HTTPException(400, "Only 'reserved' sessions can be cancelled via this endpoint.")
    ELSE Passed

\* cancel_charging_session that leaves the connector's status as it is
\* (main.py 213-220 left out)
cancel_without_connector_release(session_id) ==
    LET exc == cancel_charging_session_checks(mock_sessions_db, session_id)
        i == FindSession(mock_sessions_db, session_id)
    IN
    IF exc # Passed
    THEN Raise("cancel", exc)
    ELSE
        /\ mock_sessions_db' = [mock_sessions_db EXCEPT ![i].status = "cancelled"]
        /\ Return("cancel", 204, << >>)
        /\ UNCHANGED <<mock_stations_db, clock, tz>>

\* cancel_charging_session that removes the session from the ledger, as the
\* HTTP verb suggests, where the code marks it cancelled
cancel_deletes_session(session_id) ==
    LET exc == cancel_charging_session_checks(mock_sessions_db, session_id)
        i == FindSession(mock_sessions_db, session_id)
    IN
    IF exc # Passed
    THEN Raise("cancel", exc)
    ELSE
        /\ mock_sessions_db' = SubSeq(mock_sessions_db, 1, i - 1)
                                \o SubSeq(mock_sessions_db, i + 1, Len(mock_sessions_db))
        /\ mock_stations_db' = SetConnectorStatus(mock_stations_db,
              mock_sessions_db[i].station_id, mock_sessions_db[i].connector_id,
              "available")
        /\ Return("cancel", 204, << >>)
        /\ UNCHANGED <<clock, tz>>

\* DELETE /sessions/{session_id}
cancel_charging_session(session_id) ==
    LET exc == cancel_charging_session_checks(mock_sessions_db, session_id)
        i == FindSession(mock_sessions_db, session_id)
    IN
    IF exc # Passed
    THEN Raise("cancel", exc)
    ELSE
        /\ mock_sessions_db' = [mock_sessions_db EXCEPT ![i].status = "cancelled"]
        /\ mock_stations_db' = SetConnectorStatus(mock_stations_db,
              mock_sessions_db[i].station_id, mock_sessions_db[i].connector_id,
              "available")
        /\ Return("cancel", 204, << >>)
        /\ UNCHANGED <<clock, tz>>

Next ==
    \/ Tick
    \/ \E session_data \in ChargingSessionCreate : create_charging_session(session_data)
    \/ \E session_id \in SessionIds : start_charging_session(session_id)
    \/ \E session_id \in SessionIds, usage \in UsageInputs :
          end_charging_session(session_id, usage.kwh_consumed, usage.cost)
    \/ \E session_id \in SessionIds : cancel_charging_session(session_id)

Spec == Init /\ [][Next]_vars

\* ---- the ledger of several users ---------------------------------------------
\* the users GET /sessions/user/{user_id} is asked about; the last has no session
ListUserIds == {"U1", "U2", "U3"}

\* reservations of two users, each for the whole run of the clock
UserRequests ==
    [station_id : {"STN-001", "STN-002"}, connector_id : ConnectorIds,
     user_id : {"U1", "U2"}, start_time : {0}, expected_end_time : {MaxTime}]

\* get_user_sessions without the test of the status
get_user_sessions_any_status(user_id) ==
    LET Wanted(s) == s.user_id = user_id IN
    /\ Return("list", 200, SelectSeq(mock_sessions_db, Wanted))
    /\ UNCHANGED <<mock_stations_db, mock_sessions_db, clock, tz>>

\* GET /sessions/user/{user_id}
get_user_sessions(user_id) ==
    LET Wanted(s) == s.user_id = user_id /\ s.status \in {"reserved", "in_progress"} IN
    /\ Return("list", 200, SelectSeq(mock_sessions_db, Wanted))
    /\ UNCHANGED <<mock_stations_db, mock_sessions_db, clock, tz>>

NextUsers ==
    \/ Tick
    \/ \E session_data \in UserRequests : create_charging_session(session_data)
    \/ \E session_id \in SessionIds : start_charging_session(session_id)
    \/ \E session_id \in SessionIds, usage \in UsageInputs :
          end_charging_session(session_id, usage.kwh_consumed, usage.cost)
    \/ \E session_id \in SessionIds : cancel_charging_session(session_id)
    \/ \E user_id \in ListUserIds : get_user_sessions(user_id)

SpecUsers == Init /\ [][NextUsers]_vars

\* ---- vocabulary of the properties ------------------------------------------
\* the (station_id, connector_id) pairs of the inventory
Inventory ==
    UNION { { <<mock_stations_db[si].station_id,
                mock_stations_db[si].connectors[ci].connector_id>> :
              ci \in 1..Len(mock_stations_db[si].connectors) } :
            si \in 1..Len(mock_stations_db) }

\* the status of the connector of a pair of the inventory
StatusOf(stations, pair) ==
    LET si == FindStation(stations, pair[1])
        ci == FindConnector(stations[si], pair[2])
    IN stations[si].connectors[ci].status

Ledger == 1..Len(mock_sessions_db)
PairOf(s) == <<s.station_id, s.connector_id>>
NonTerminal(s) == s.status \in {"reserved", "in_progress"}

\* the half-open windows [a, b) and [c, d) have an instant in common
WindowsMeet(a, b, c, d) == a < b /\ c < d /\ a < d /\ c < b

\* the error kinds of the responses
InvalidWindow(r) == r.status_code = 400
NotFound(r) == r.status_code = 404
Conflict(r) == r.status_code = 409
InvalidTransition(r) == r.status_code = 400
Succeeded(r) == r.status_code \in {200, 201, 204}
Failed(r) == r.status_code >= 400

\* what POST /sessions would answer to `req` in the current state
ReserveAnswer(req) ==
    create_charging_session_checks(mock_stations_db, mock_sessions_db, datetime_now, req)

\* ---- C1 --------------------------------------------------------------------
\* C1: no double-booking. In every reachable state, two distinct sessions on
\* the same (station_id, connector_id) pair that are both reserved or
\* in_progress have windows [start_time, expected_end_time) that do not overlap.
C1_NoDoubleBooking ==
    \A i \in Ledger, j \in Ledger :
        ( /\ i # j
          /\ PairOf(mock_sessions_db[i]) = PairOf(mock_sessions_db[j])
          /\ NonTerminal(mock_sessions_db[i])
          /\ NonTerminal(mock_sessions_db[j]) )
        => ~ WindowsMeet(mock_sessions_db[i].start_time,
                         mock_sessions_db[i].expected_end_time,
                         mock_sessions_db[j].start_time,
                         mock_sessions_db[j].expected_end_time)

\* a second reservation has just been admitted on a connector whose earlier
\* session, with a window that overlaps the new one, is no longer active
C1_Witness ==
    /\ last.op = "reserve" /\ last.status_code = 201
    /\ \E i \in Ledger, j \in Ledger :
          /\ i < j
          /\ mock_sessions_db[j] = last.body[1]
          /\ PairOf(mock_sessions_db[i]) = PairOf(mock_sessions_db[j])
          /\ ~ NonTerminal(mock_sessions_db[i])
          /\ WindowsMeet(mock_sessions_db[i].start_time,
                         mock_sessions_db[i].expected_end_time,
                         mock_sessions_db[j].start_time,
                         mock_sessions_db[j].expected_end_time)
\* ---- C2 --------------------------------------------------------------------
\* the window of `req` is not disjoint from the window of session s, by the
\* test the code uses (main.py 55)
Collides(req, s) ==
    ~ (req.expected_end_time <= s.start_time \/ req.start_time >= s.expected_end_time)

\* `req` asks for the connector of an active (reserved or in_progress)
\* session, for a window that collides with that session's
OverlapsActive(req) ==
    \E i \in Ledger :
        /\ NonTerminal(mock_sessions_db[i])
        /\ PairOf(mock_sessions_db[i]) = <<req.station_id, req.connector_id>>
        /\ Collides(req, mock_sessions_db[i])

\* the window of `req` passes the two window checks
ValidWindow(req, now) ==
    req.expected_end_time > now /\ req.start_time < req.expected_end_time

\* C2 as stated: a reserve for a window that overlaps an active session's
\* window on the same connector always fails with Conflict. (The windows are
\* taken to overlap only when they share an instant.)
C2_Original ==
    \A req \in ChargingSessionCreate :
        (\E i \in Ledger :
            /\ NonTerminal(mock_sessions_db[i])
            /\ PairOf(mock_sessions_db[i]) = <<req.station_id, req.connector_id>>
            /\ WindowsMeet(req.start_time, req.expected_end_time,
                           mock_sessions_db[i].start_time,
                           mock_sessions_db[i].expected_end_time))
        => Conflict(ReserveAnswer(req))

\* C2, state part: a reserve for a window that collides with an active
\* session's window on the same connector always fails: with Conflict when the
\* request passes the window checks, and with InvalidWindow when it does not.
C2_OverlapRejected ==
    \A req \in ChargingSessionCreate :
        OverlapsActive(req) =>
            IF ValidWindow(req, datetime_now)
            THEN Conflict(ReserveAnswer(req))
            ELSE InvalidWindow(ReserveAnswer(req))

\* C2, step part: of two reserve requests for colliding windows on one
\* connector that would each be accepted, the one handled first succeeds and
\* the other then fails with Conflict, whichever of them is handled first.
C2_OneOfTwo ==
    (last'.op = "reserve" /\ last'.status_code = 201
        /\ mock_sessions_db' # mock_sessions_db)
    => \A other \in ChargingSessionCreate :
          ( /\ ReserveAnswer(other) = Passed
            /\ <<other.station_id, other.connector_id>> = PairOf(last'.body[1])
            /\ Collides(other, last'.body[1]) )
          => Conflict(create_charging_session_checks(mock_stations_db',
                        mock_sessions_db', datetime_now', other))

\* C2 (amended): overlapping reservations are rejected, in either order of the
\* requests; exactly one of two concurrent acceptable requests succeeds.
C2_ExactlyOneReservation == []C2_OverlapRejected /\ [][C2_OneOfTwo]_vars

\* a reserve has just been refused with Conflict while a session is active on
\* its connector, and a request for a colliding window is pending refusal
C2_Witness ==
    /\ last.op = "reserve" /\ last.status_code = 409
    /\ \E req \in ChargingSessionCreate :
          OverlapsActive(req) /\ ValidWindow(req, datetime_now)
    /\ \E req \in ChargingSessionCreate :
          OverlapsActive(req) /\ ~ ValidWindow(req, datetime_now)
\* ---- C3 --------------------------------------------------------------------
\* session s is on the connector `pair` and is reserved or in_progress
ActiveOn(s, pair) == NonTerminal(s) /\ PairOf(s) = pair

\* the window of session s covers the current time or is still to come
CurrentOrUpcoming(s) == s.expected_end_time > datetime_now

\* C3 as stated: a connector is occupied or reserved if and only if an active
\* session references it whose window covers the current time or is upcoming,
\* and is available otherwise.
C3_Original ==
    \A pair \in Inventory :
        /\ StatusOf(mock_stations_db, pair) \in {"occupied", "reserved"}
             <=> \E i \in Ledger : /\ ActiveOn(mock_sessions_db[i], pair)
                                   /\ CurrentOrUpcoming(mock_sessions_db[i])
        /\ StatusOf(mock_stations_db, pair) \in {"occupied", "reserved", "available"}

\* C3 (amended): a connector is occupied or reserved if and only if an active
\* session references it, whether or not that session's window has passed,
\* and is available otherwise.
C3_StatusIffActiveSession ==
    \A pair \in Inventory :
        /\ StatusOf(mock_stations_db, pair) \in {"occupied", "reserved"}
             <=> \E i \in Ledger : ActiveOn(mock_sessions_db[i], pair)
        /\ StatusOf(mock_stations_db, pair) \in {"occupied", "reserved", "available"}

\* a connector is still reserved for a session whose window has passed, while
\* another connector has been released by a cancel
C3_Witness ==
    /\ \E i \in Ledger :
          /\ mock_sessions_db[i].status = "reserved"
          /\ ~ CurrentOrUpcoming(mock_sessions_db[i])
          /\ StatusOf(mock_stations_db, PairOf(mock_sessions_db[i])) = "reserved"
    /\ \E j \in Ledger :
          /\ mock_sessions_db[j].status = "cancelled"
          /\ StatusOf(mock_stations_db, PairOf(mock_sessions_db[j])) = "available"

\* ---- C4 --------------------------------------------------------------------
\* C4, state part: between operations a connector is reserved exactly when it
\* has a reserved session, occupied exactly when it has an in_progress session,
\* and available exactly when it has neither.
C4_StatusDerivable ==
    \A pair \in Inventory :
        LET HasSession(status) ==
                \E i \in Ledger : /\ PairOf(mock_sessions_db[i]) = pair
                                  /\ mock_sessions_db[i].status = status
        IN
        /\ StatusOf(mock_stations_db, pair) = "reserved" <=> HasSession("reserved")
        /\ StatusOf(mock_stations_db, pair) = "occupied" <=> HasSession("in_progress")
        /\ StatusOf(mock_stations_db, pair) = "available"
             <=> (~ HasSession("reserved") /\ ~ HasSession("in_progress"))

\* C4, step part: whenever a step gives a session a new status, it is the
\* step of the matching operation, and it leaves that session's connector
\* reserved after a reserve, occupied after a start, and available after an
\* end or a cancel.
C4_Lockstep ==
    \A i \in 1..Len(mock_sessions_db') :
        LET new == mock_sessions_db'[i]
            moved == i > Len(mock_sessions_db)
                        \/ mock_sessions_db[i].status # new.status
            connector == StatusOf(mock_stations_db', PairOf(new))
        IN
        moved =>
            /\ Succeeded(last')
            /\ new.status = "reserved" => (last'.op = "reserve" /\ connector = "reserved")
            /\ new.status = "in_progress" => (last'.op = "start" /\ connector = "occupied")
            /\ new.status = "completed" => (last'.op = "end" /\ connector = "available")
            /\ new.status = "cancelled" => (last'.op = "cancel" /\ connector = "available")

\* C4: connector status moves in lockstep with its session.
C4_ConnectorFollowsSession == []C4_StatusDerivable /\ [][C4_Lockstep]_vars

\* a session has just been started on a connector that an earlier session,
\* now completed or cancelled, had held and released
C4_Witness ==
    /\ last.op = "start" /\ last.status_code = 200
    /\ StatusOf(mock_stations_db, PairOf(last.body[1])) = "occupied"
    /\ \E i \in Ledger :
          /\ PairOf(mock_sessions_db[i]) = PairOf(last.body[1])
          /\ mock_sessions_db[i].status \in {"completed", "cancelled"}
\* ---- C5 --------------------------------------------------------------------
\* the status of the session with this id, "absent" when the ledger has none
SessionStatus(session_id) ==
    IF \E i \in Ledger : mock_sessions_db[i].session_id = session_id
    THEN mock_sessions_db[CHOOSE i \in Ledger :
                              mock_sessions_db[i].session_id = session_id].status
    ELSE "absent"

\* C5: illegal lifecycle calls are rejected. A start on a session that is
\* in_progress, completed or cancelled, an end on a session that is not
\* in_progress and a cancel on a session that is not reserved fail with
\* InvalidTransition; each of the three fails with NotFound on an id that is
\* not in the ledger.
C5_Step ==
    /\ last'.op = "start" =>
          \A session_id \in SessionIds :
              start_charging_session(session_id) =>
                  /\ SessionStatus(session_id) = "absent" => NotFound(last')
                  /\ SessionStatus(session_id) \in {"in_progress", "completed", "cancelled"}
                        => InvalidTransition(last')
    /\ last'.op = "end" =>
          \A session_id \in SessionIds, usage \in UsageInputs :
              end_charging_session(session_id, usage.kwh_consumed, usage.cost) =>
                  /\ SessionStatus(session_id) = "absent" => NotFound(last')
                  /\ SessionStatus(session_id) \in {"reserved", "completed", "cancelled"}
                        => InvalidTransition(last')
    /\ last'.op = "cancel" =>
          \A session_id \in SessionIds :
              cancel_charging_session(session_id) =>
                  /\ SessionStatus(session_id) = "absent" => NotFound(last')
                  /\ SessionStatus(session_id) \in {"in_progress", "completed", "cancelled"}
                        => InvalidTransition(last')

C5_IllegalCallsRejected == [][C5_Step]_vars

\* a cancel has just been refused as an invalid transition, and no session of
\* the ledger is reserved: the session it named was past reservation
C5_Witness ==
    /\ last.op = "cancel" /\ InvalidTransition(last)
    /\ \E i \in Ledger : mock_sessions_db[i].status = "completed"
    /\ \A i \in Ledger : mock_sessions_db[i].status # "reserved"

\* ---- C6 --------------------------------------------------------------------
\* the status changes the lifecycle allows
AllowedTransitions ==
    { <<"reserved", "in_progress">>, <<"in_progress", "completed">>,
      <<"reserved", "cancelled">>,
      <<"reserved", "failed">>, <<"in_progress", "failed">> }

\* C6: a session's status only changes along reserved -> in_progress ->
\* completed, reserved -> cancelled, or from reserved or in_progress to failed;
\* no step moves it backwards, and a completed, cancelled or failed session
\* keeps its status for good.
C6_Step ==
    \A i \in Ledger :
        /\ i <= Len(mock_sessions_db')
        /\ mock_sessions_db'[i].session_id = mock_sessions_db[i].session_id
        /\ \/ mock_sessions_db'[i].status = mock_sessions_db[i].status
           \/ <<mock_sessions_db[i].status, mock_sessions_db'[i].status>>
                 \in AllowedTransitions

C6_MonotonicStatus == [][C6_Step]_vars

\* one session has gone all the way to completed and another was cancelled
C6_Witness ==
    /\ \E i \in Ledger : mock_sessions_db[i].status = "completed"
    /\ \E i \in Ledger : mock_sessions_db[i].status = "cancelled"

\* ---- C7 --------------------------------------------------------------------
\* C7: every mutating operation is all-or-nothing. A step that ends in
\* InvalidWindow, NotFound, Conflict or InvalidTransition leaves the ledger and
\* every connector status as they were; a reserve with an expected_end_time in
\* the past creates no session and changes no connector.
C7_Step ==
    Failed(last') =>
        /\ mock_sessions_db' = mock_sessions_db
        /\ mock_stations_db' = mock_stations_db

C7_AllOrNothing == [][C7_Step]_vars

\* a reserve for a window in the past has just been refused, while the ledger
\* holds a session and a connector is reserved
C7_Witness ==
    /\ last.op = "reserve"
    /\ last.detail = "Cannot reserve a session in the past."
    /\ \E i \in Ledger :
          /\ mock_sessions_db[i].status = "reserved"
          /\ StatusOf(mock_stations_db, PairOf(mock_sessions_db[i])) = "reserved"

\* ---- C8 --------------------------------------------------------------------
\* C8: every session of every reachable state has start_time <
\* expected_end_time, at creation and after every later operation on it,
\* start included.
C8_StartBeforeEnd ==
    \A i \in Ledger :
        mock_sessions_db[i].start_time < mock_sessions_db[i].expected_end_time

\* ---- C9 --------------------------------------------------------------------
\* the six checks of a reserve, as the specification numbers them
CheckFails(req, k) ==
    CASE k = 1 -> req.expected_end_time <= datetime_now
      [] k = 2 -> req.start_time >= req.expected_end_time
      [] k = 3 -> \A si \in 1..Len(mock_stations_db) :
                      mock_stations_db[si].station_id # req.station_id
      [] k = 4 -> <<req.station_id, req.connector_id>> \notin Inventory
      [] k = 5 -> /\ <<req.station_id, req.connector_id>> \in Inventory
                  /\ StatusOf(mock_stations_db, <<req.station_id, req.connector_id>>)
                        # "available"
      [] k = 6 -> OverlapsActive(req)

\* the first check `req` fails, 0 when it passes all six
FirstFailing(req) ==
    IF \E k \in 1..6 : CheckFails(req, k)
    THEN CHOOSE k \in 1..6 :
            CheckFails(req, k) /\ \A j \in 1..(k - 1) : ~ CheckFails(req, j)
    ELSE 0

\* what each check reports
CheckDetail ==
    << "Cannot reserve a session in the past.",
       "Start time must be before end time.",
       "Charging station not found.",
       "Connector not found at station.",
       "Connector is currently not available.",
       "Connector is not available during the requested time." >>

\* C9: reserve validates in a fixed order and reports the first failing check:
\* window in the past or empty -> InvalidWindow, unknown station or connector
\* -> NotFound, connector not available or window taken -> Conflict.
C9_FirstFailingCheckWins ==
    \A req \in ChargingSessionCreate :
        LET k == FirstFailing(req)
            answer == ReserveAnswer(req)
        IN
        /\ k = 0 <=> answer = Passed
        /\ k \in {1, 2} => InvalidWindow(answer)
        /\ k \in {3, 4} => NotFound(answer)
        /\ k \in {5, 6} => Conflict(answer)
        /\ k # 0 => answer.detail = CheckDetail[k]

\* a reserve has just been refused for a window in the past, at a time when a
\* request can fail the window check, the station check and, on another
\* connector, the status check at once
C9_Witness ==
    /\ last.op = "reserve" /\ InvalidWindow(last)
    /\ last.detail = CheckDetail[1]
    /\ \E req \in ChargingSessionCreate :
          CheckFails(req, 1) /\ CheckFails(req, 3) /\ FirstFailing(req) = 1
    /\ \E req \in ChargingSessionCreate :
          CheckFails(req, 2) /\ CheckFails(req, 5) /\ FirstFailing(req) = 2
    /\ \E req \in ChargingSessionCreate : FirstFailing(req) = 5

\* ---- C10 -------------------------------------------------------------------
\* C10: a successful reserve appends exactly one session to the ledger, with an
\* id no session of the ledger has, status reserved and the station_id,
\* connector_id, user_id, start_time and expected_end_time of the request; it
\* sets the connector of the request to reserved and returns that session; the
\* sessions that existed are unchanged.
C10_Step ==
    (last'.op = "reserve" /\ Succeeded(last') /\ mock_sessions_db' # mock_sessions_db)
    => /\ Len(last'.body) = 1
       /\ mock_sessions_db' = Append(mock_sessions_db, last'.body[1])
       /\ \A i \in Ledger : mock_sessions_db[i].session_id # last'.body[1].session_id
       /\ last'.body[1].status = "reserved"
       /\ \A req \in ChargingSessionCreate :
             create_charging_session(req) =>
                /\ last'.body[1].station_id = req.station_id
                /\ last'.body[1].connector_id = req.connector_id
                /\ last'.body[1].user_id = req.user_id
                /\ last'.body[1].start_time = req.start_time
                /\ last'.body[1].expected_end_time = req.expected_end_time
                /\ StatusOf(mock_stations_db', <<req.station_id, req.connector_id>>)
                      = "reserved"

C10_ReserveAppendsOne == [][C10_Step]_vars

\* a second reservation has just been appended to a ledger that held one
C10_Witness ==
    /\ last.op = "reserve" /\ last.status_code = 201
    /\ Len(mock_sessions_db) = 2
    /\ mock_sessions_db[2] = last.body[1]
    /\ mock_sessions_db[1].session_id # mock_sessions_db[2].session_id
\* ---- C11 -------------------------------------------------------------------
\* C11: of two cancels of the same reserved session the first succeeds and the
\* second fails with InvalidTransition, and the second leaves the state as the
\* first left it: the session cancelled, the connector statuses and the other
\* sessions untouched.
C11_Step ==
    /\ (last'.op = "cancel" /\ Succeeded(last') /\ mock_sessions_db' # mock_sessions_db)
          => \A session_id \in SessionIds :
                cancel_charging_session(session_id) =>
                    /\ SessionStatus(session_id) = "reserved"
                    /\ mock_sessions_db'[FindSession(mock_sessions_db', session_id)].status
                          = "cancelled"
                    /\ InvalidTransition(
                          cancel_charging_session_checks(mock_sessions_db', session_id))
    /\ last'.op = "cancel"
          => \A session_id \in SessionIds :
                (SessionStatus(session_id) = "cancelled"
                    /\ cancel_charging_session(session_id))
                => /\ InvalidTransition(last')
                   /\ mock_sessions_db' = mock_sessions_db
                   /\ mock_stations_db' = mock_stations_db

C11_CancelTwice == [][C11_Step]_vars

\* a cancel has just been refused as an invalid transition and every session
\* of the ledger is cancelled: it was the second cancel of a session
C11_Witness ==
    /\ last.op = "cancel" /\ InvalidTransition(last)
    /\ Len(mock_sessions_db) > 0
    /\ \A i \in Ledger :
          /\ mock_sessions_db[i].status = "cancelled"
          /\ StatusOf(mock_stations_db, PairOf(mock_sessions_db[i])) = "available"

\* ---- C12 -------------------------------------------------------------------
\* C12: the ledger is append-only. A session id that is in the ledger is in the
\* ledger after every step, cancel included; a session that is cancelled or
\* completed stays in the ledger with that status.
C12_Step ==
    \A i \in Ledger :
        \E j \in 1..Len(mock_sessions_db') :
            /\ mock_sessions_db'[j].session_id = mock_sessions_db[i].session_id
            /\ mock_sessions_db[i].status \in {"cancelled", "completed"}
                  => mock_sessions_db'[j].status = mock_sessions_db[i].status

C12_AppendOnly == [][C12_Step]_vars

\* a cancel has just succeeded and the cancelled session is in the ledger,
\* next to a completed one
C12_Witness ==
    /\ last.op = "cancel" /\ Succeeded(last)
    /\ \E i \in Ledger : mock_sessions_db[i].status = "cancelled"
    /\ \E i \in Ledger : mock_sessions_db[i].status = "completed"
\* ---- C13 -------------------------------------------------------------------
\* the sessions of the ledger that are of `user_id` and reserved or in_progress
ActiveOf(user_id) ==
    { i \in Ledger : /\ mock_sessions_db[i].user_id = user_id
                     /\ NonTerminal(mock_sessions_db[i]) }

\* C13: listByUser(user_id) returns exactly the sessions of the ledger of that
\* user that are reserved or in_progress, never a completed or cancelled one
\* and never another user's, and leaves the ledger and every connector status
\* as they were.
C13_Step ==
    last'.op = "list" =>
        \A user_id \in ListUserIds :
            get_user_sessions(user_id) =>
                /\ Succeeded(last')
                /\ Len(last'.body) = Cardinality(ActiveOf(user_id))
                /\ \A i \in ActiveOf(user_id) :
                      \E k \in 1..Len(last'.body) : last'.body[k] = mock_sessions_db[i]
                /\ \A k \in 1..Len(last'.body) :
                      /\ last'.body[k].user_id = user_id
                      /\ NonTerminal(last'.body[k])
                /\ mock_sessions_db' = mock_sessions_db
                /\ mock_stations_db' = mock_stations_db

C13_ListByUser == [][C13_Step]_vars

\* a listing has just returned the one active session of a user, out of a
\* ledger that also holds a finished session of that user
C13_Witness ==
    /\ last.op = "list" /\ Len(last.body) = 1
    /\ \E i \in Ledger :
          /\ mock_sessions_db[i].user_id = last.body[1].user_id
          /\ ~ NonTerminal(mock_sessions_db[i])

\* a listing has just returned the one active session of a user, out of a
\* ledger that also holds an active session of another user
C13_WitnessOtherUser ==
    /\ last.op = "list" /\ Len(last.body) = 1
    /\ \E i \in Ledger :
          /\ mock_sessions_db[i].user_id # last.body[1].user_id
          /\ NonTerminal(mock_sessions_db[i])
\* ---- C14 -------------------------------------------------------------------
\* C14, state part: a session has kwh_consumed, cost and actual_end_time set if
\* and only if it is completed; a reserved, in_progress or cancelled session
\* has all three unset.
C14_UsageIffCompleted ==
    \A i \in Ledger :
        LET s == mock_sessions_db[i] IN
        IF s.status = "completed"
        THEN /\ Cardinality(s.kwh_consumed) = 1
             /\ Cardinality(s.cost) = 1
             /\ Cardinality(s.actual_end_time) = 1
        ELSE s.kwh_consumed = None /\ s.cost = None /\ s.actual_end_time = None

\* C14, step part: the session an end completes carries the kwh_consumed and
\* the cost passed to the end, 0 and 0 when they are left unspecified.
C14_CarriesUsage ==
    (last'.op = "end" /\ Succeeded(last'))
    => \A session_id \in SessionIds, usage \in UsageInputs :
          end_charging_session(session_id, usage.kwh_consumed, usage.cost) =>
              LET s == mock_sessions_db'[FindSession(mock_sessions_db', session_id)] IN
              /\ s.status = "completed"
              /\ s.kwh_consumed = {usage.kwh_consumed}
              /\ s.cost = {usage.cost}
              /\ s = last'.body[1]

\* C14: usage and completion fields are populated only on completion.
C14_UsageOnlyOnCompletion == []C14_UsageIffCompleted /\ [][C14_CarriesUsage]_vars

\* one session was completed with a reading and one with the defaults, the
\* latter by the end that has just returned
C14_Witness ==
    /\ last.op = "end" /\ Succeeded(last)
    /\ last.body[1].kwh_consumed = {0} /\ last.body[1].cost = {0}
    /\ \E i \in Ledger :
          /\ mock_sessions_db[i].status = "completed"
          /\ mock_sessions_db[i].kwh_consumed = {12}
          /\ mock_sessions_db[i].cost = {4}
\* ---- C15 -------------------------------------------------------------------
\* no state shows a session whose status has moved while its connector's has
\* not: the connector of a reserved session is reserved, that of an in_progress
\* session is occupied
C15_NoTornUpdate ==
    \A i \in Ledger :
        LET s == mock_sessions_db[i] IN
        /\ s.status = "reserved" => StatusOf(mock_stations_db, PairOf(s)) = "reserved"
        /\ s.status = "in_progress" => StatusOf(mock_stations_db, PairOf(s)) = "occupied"

\* of a start and a cancel of one reserved session, the one handled first
\* succeeds and leaves the other to fail with InvalidTransition; the connector
\* then matches the session: occupied with in_progress, available with
\* cancelled; and the one that fails changes nothing
C15_Race ==
    /\ (last'.op \in {"start", "cancel"} /\ Succeeded(last')
            /\ mock_sessions_db' # mock_sessions_db)
          => \A session_id \in SessionIds :
                (start_charging_session(session_id) \/ cancel_charging_session(session_id))
                => LET s == mock_sessions_db'[FindSession(mock_sessions_db', session_id)] IN
                   /\ SessionStatus(session_id) = "reserved"
                   /\ IF last'.op = "start"
                      THEN /\ s.status = "in_progress"
                           /\ StatusOf(mock_stations_db', PairOf(s)) = "occupied"
                           /\ InvalidTransition(cancel_charging_session_checks(
                                                    mock_sessions_db', session_id))
                      ELSE /\ s.status = "cancelled"
                           /\ StatusOf(mock_stations_db', PairOf(s)) = "available"
                           /\ InvalidTransition(start_charging_session_checks(
                                                    mock_sessions_db', session_id))
    /\ (last'.op \in {"start", "cancel"} /\ Failed(last'))
          => /\ mock_sessions_db' = mock_sessions_db
             /\ mock_stations_db' = mock_stations_db

\* C15: lifecycle transitions are atomic two-entity updates, and of a start and
\* a cancel issued concurrently on one reserved session exactly one succeeds.
C15_AtomicLifecycle == []C15_NoTornUpdate /\ [][C15_Race]_vars

\* the cancel was handled first: the start has just been refused as an invalid
\* transition, the session is cancelled and its connector is available
C15_Witness ==
    /\ last.op = "start" /\ InvalidTransition(last)
    /\ Len(mock_sessions_db) > 0
    /\ \A i \in Ledger :
          /\ mock_sessions_db[i].status = "cancelled"
          /\ StatusOf(mock_stations_db, PairOf(mock_sessions_db[i])) = "available"
\* ---- C16 -------------------------------------------------------------------
\* what isAvailable answers for a connector and a window in the current state
IsAvailable(station_id, connector_id, start, end) ==
    check_connector_availability(mock_sessions_db, station_id, connector_id, start, end)

\* C16: isAvailable(station_id, connector_id, start, end) is false if and only
\* if a reserved or in_progress session on that very pair has a window with
\* NOT (end <= start_time OR start >= expected_end_time). A window that ends
\* where such a session starts, or starts where it ends, does not conflict with
\* it, and completed and cancelled sessions are ignored.
C16_IsAvailable ==
    \A station_id \in StationIds, connector_id \in ConnectorIds,
       start \in Times, end \in Times :
        LET Blocking ==
                { i \in Ledger :
                    /\ ActiveOn(mock_sessions_db[i], <<station_id, connector_id>>)
                    /\ ~ (end <= mock_sessions_db[i].start_time
                          \/ start >= mock_sessions_db[i].expected_end_time) }
            Active == { i \in Ledger :
                          ActiveOn(mock_sessions_db[i], <<station_id, connector_id>>) }
        IN
        /\ IsAvailable(station_id, connector_id, start, end) <=> Blocking = {}
        /\ Active = {} => IsAvailable(station_id, connector_id, start, end)
        /\ (\A i \in Active : \/ end = mock_sessions_db[i].start_time
                              \/ start = mock_sessions_db[i].expected_end_time)
              => IsAvailable(station_id, connector_id, start, end)

\* a connector has a reserved session and a cancelled or completed one; the
\* window that ends where the reserved session starts is free although it runs
\* into the window of the finished one, and a longer window is not free
C16_Witness ==
    \E i \in Ledger, j \in Ledger :
        LET s == mock_sessions_db[i]
            t == mock_sessions_db[j]
        IN
        /\ s.status = "reserved" /\ ~ NonTerminal(t) /\ PairOf(s) = PairOf(t)
        /\ \E start \in Times :
              /\ start < s.start_time
              /\ WindowsMeet(start, s.start_time, t.start_time, t.expected_end_time)
              /\ IsAvailable(s.station_id, s.connector_id, start, s.start_time)
              /\ ~ IsAvailable(s.station_id, s.connector_id, start, s.expected_end_time)
\* ---- C17 -------------------------------------------------------------------
\* session s is reserved and its window has fully passed without a start
Stale(s) == s.status = "reserved" /\ s.expected_end_time <= datetime_now

\* the reserve requests for the connector of session s
RequestsFor(s) ==
    { req \in ChargingSessionCreate : <<req.station_id, req.connector_id>> = PairOf(s) }

\* C17 as stated, its state part: the connector of a stale reservation stays
\* reserved and every reserve on that connector fails with Conflict.
C17_Original ==
    \A i \in Ledger :
        Stale(mock_sessions_db[i]) =>
            /\ StatusOf(mock_stations_db, PairOf(mock_sessions_db[i])) = "reserved"
            /\ \A req \in RequestsFor(mock_sessions_db[i]) : Conflict(ReserveAnswer(req))

\* C17 (amended), state part: the connector of a stale reservation stays
\* reserved, and every reserve on that connector fails: with Conflict when the
\* request passes the window checks, whatever its window, and with
\* InvalidWindow when it does not.
C17_StaleBlocks ==
    \A i \in Ledger :
        Stale(mock_sessions_db[i]) =>
            /\ StatusOf(mock_stations_db, PairOf(mock_sessions_db[i])) = "reserved"
            /\ \A req \in RequestsFor(mock_sessions_db[i]) :
                  IF ValidWindow(req, datetime_now)
                  THEN Conflict(ReserveAnswer(req))
                  ELSE InvalidWindow(ReserveAnswer(req))

\* C17, step part: the passage of time alone changes no session and no
\* connector; a reserved session leaves that status only by a successful start
\* or cancel, and a connector changes status only in a step of a successful
\* operation.
C17_NoExpiry ==
    /\ clock' # clock =>
          (mock_sessions_db' = mock_sessions_db /\ mock_stations_db' = mock_stations_db)
    /\ \A i \in Ledger :
          (mock_sessions_db[i].status = "reserved"
              /\ mock_sessions_db'[i].status # "reserved")
          => (last'.op \in {"start", "cancel"} /\ Succeeded(last'))
    /\ mock_stations_db' # mock_stations_db =>
          (Succeeded(last') /\ mock_sessions_db' # mock_sessions_db)

\* C17 (amended): there is no automatic expiry.
C17_NoAutomaticExpiry == []C17_StaleBlocks /\ [][C17_NoExpiry]_vars

\* the only session of the ledger is a reservation whose window has passed;
\* its connector is reserved, and a request for a later window on it, which
\* that window does not touch, is refused with Conflict
C17_Witness ==
    /\ Len(mock_sessions_db) = 1
    /\ Stale(mock_sessions_db[1])
    /\ StatusOf(mock_stations_db, PairOf(mock_sessions_db[1])) = "reserved"
    /\ last.op = "reserve" /\ Conflict(last)
    /\ \E req \in RequestsFor(mock_sessions_db[1]) :
          /\ ValidWindow(req, datetime_now)
          /\ req.start_time >= mock_sessions_db[1].expected_end_time
          /\ Conflict(ReserveAnswer(req))
\* ---- C18 -------------------------------------------------------------------
\* the ledger restricted to the sessions on `pair`
SessionsOn(sessions, pair) == SelectSeq(sessions, LAMBDA s : PairOf(s) = pair)

\* the inventory with every connector other than `pair` back to available
OthersAvailable(stations, pair) ==
    [si \in DOMAIN stations |->
        [stations[si] EXCEPT !.connectors =
            [ci \in DOMAIN @ |->
                IF <<stations[si].station_id, @[ci].connector_id>> = pair
                THEN @[ci]
                ELSE [@[ci] EXCEPT !.status = "available"]]]]

\* C18, step part: a step that adds or changes a session leaves the status of
\* every connector other than that session's and every field of every other
\* session unchanged; a session never moves to another connector, and a
\* connector changes status only together with a session on it.
C18_Frame ==
    <<mock_stations_db, mock_sessions_db>>' # <<mock_stations_db, mock_sessions_db>> =>
    /\ Len(mock_sessions_db') >= Len(mock_sessions_db)
    /\ \A i \in 1..Len(mock_sessions_db') :
          (i \notin Ledger \/ mock_sessions_db'[i] # mock_sessions_db[i]) =>
              /\ i \in Ledger => PairOf(mock_sessions_db'[i]) = PairOf(mock_sessions_db[i])
              /\ \A q \in Inventory \ {PairOf(mock_sessions_db'[i])} :
                    StatusOf(mock_stations_db', q) = StatusOf(mock_stations_db, q)
              /\ \A j \in Ledger \ {i} : mock_sessions_db'[j] = mock_sessions_db[j]
    /\ \A p \in Inventory :
          StatusOf(mock_stations_db', p) # StatusOf(mock_stations_db, p) =>
              \E i \in 1..Len(mock_sessions_db') :
                  /\ PairOf(mock_sessions_db'[i]) = p
                  /\ (i \notin Ledger \/ mock_sessions_db'[i] # mock_sessions_db[i])

\* C18, state part: the answer to a reserve is the answer it would get with
\* every other connector available and no session on any other connector, and
\* the availability of a (station_id, connector_id) pair, in the inventory or
\* not, is its availability in the ledger restricted to that pair, so that a
\* session with the same connector_id at another station does not count.
C18_Independent ==
    /\ \A req \in ChargingSessionCreate :
          LET pair == <<req.station_id, req.connector_id>> IN
          ReserveAnswer(req) =
              create_charging_session_checks(OthersAvailable(mock_stations_db, pair),
                                             SessionsOn(mock_sessions_db, pair),
                                             datetime_now, req)
    /\ \A station_id \in StationIds, connector_id \in ConnectorIds,
          start \in Times, end \in Times :
          IsAvailable(station_id, connector_id, start, end) =
              check_connector_availability(
                  SessionsOn(mock_sessions_db, <<station_id, connector_id>>),
                  station_id, connector_id, start, end)

\* C18: sessions on different connectors never interact.
C18_NoInteraction == []C18_Independent /\ [][C18_Frame]_vars

\* a session on one connector has just been started while a session on a
\* connector of the other station is reserved, and a reserve on a third
\* connector would succeed
C18_Witness ==
    /\ Len(mock_sessions_db) = 2
    /\ PairOf(mock_sessions_db[1]) # PairOf(mock_sessions_db[2])
    /\ \E i \in Ledger : mock_sessions_db[i].status = "reserved"
    /\ \E i \in Ledger : mock_sessions_db[i].status = "in_progress"
    /\ last.op = "start" /\ Succeeded(last)
    /\ \E p \in Inventory : StatusOf(mock_stations_db, p) = "available"
\* ---- C19 -------------------------------------------------------------------
\* the reserved or in_progress sessions on `pair`
ActiveSessionsOn(pair) == { i \in Ledger : ActiveOn(mock_sessions_db[i], pair) }

\* the window of request req has no instant in common with that of session s
Disjoint(req, s) ==
    req.expected_end_time <= s.start_time \/ req.start_time >= s.expected_end_time

ReachesAvailabilityCheck(req) ==
    /\ ValidWindow(req, datetime_now)
    /\ <<req.station_id, req.connector_id>> \in Inventory
    /\ StatusOf(mock_stations_db, <<req.station_id, req.connector_id>>) = "available"

\* C20: an available connector has no reserved or in_progress session, so a
\* reserve that reaches the availability check finds the window free and
\* succeeds; the answer "not available during the requested time" is never
\* given, and every Conflict comes from the connector-status check.
C20_AvailabilityNeverFails ==
    /\ \A pair \in Inventory :
          StatusOf(mock_stations_db, pair) = "available" => ActiveSessionsOn(pair) = {}
    /\ \A req \in ChargingSessionCreate :
          /\ ReachesAvailabilityCheck(req) =>
                /\ IsAvailable(req.station_id, req.connector_id,
                               req.start_time, req.expected_end_time)
                /\ ReserveAnswer(req) = Passed
          /\ ReserveAnswer(req).detail # CheckDetail[6]
          /\ Conflict(ReserveAnswer(req)) => ReserveAnswer(req).detail = CheckDetail[5]
    /\ last.detail # CheckDetail[6]
    /\ (last.op = "reserve" /\ Conflict(last)) => last.detail = CheckDetail[5]

\* a reserve has just succeeded on a connector that carries an earlier,
\* cancelled session with an overlapping window: the availability check was
\* reached and reported the window free
C20_Witness ==
    /\ Len(mock_sessions_db) = 2
    /\ PairOf(mock_sessions_db[1]) = PairOf(mock_sessions_db[2])
    /\ mock_sessions_db[1].status = "cancelled"
    /\ mock_sessions_db[2].status = "reserved"
    /\ WindowsMeet(mock_sessions_db[1].start_time, mock_sessions_db[1].expected_end_time,
                   mock_sessions_db[2].start_time, mock_sessions_db[2].expected_end_time)
    /\ last.op = "reserve" /\ Succeeded(last)
====
